---- MODULE Spec2Model ----
(***************************************************************************)
(* Model of the PyMoDAQ actuator plugin DAQ_Move_ChopperSR542              *)
(* (daq_move_plugins/daq_move_ChopperSR542.py): the adapter between the    *)
(* host framework's actuator calls and the SR542 chopper driver.           *)
(*                                                                         *)
(* The driver object (srsinst.sr542.SR542) and the host base class         *)
(* (DAQ_Move_base) are collaborators.  Every call into the driver either   *)
(* returns or raises; a call through a handle that is not connected        *)
(* raises.  Phase, targets and scaling values are bounded integers.        *)
(***************************************************************************)
EXTENDS Integers, Sequences, FiniteSets

VARIABLES
    pc,                \* lifecycle of the plugin instance: new / ready / raised / closed
    portOk,            \* whether a device answers on settings['com_port']
    controller,        \* self.controller: "None" or "SR542"
    connected,         \* the driver handle's connection state
    initialized,       \* the flag ini_stage last computed (is_connected())
    settings,          \* the plugin's own parameters (values)
    visible,           \* visibility of the 'edge' and 'internal_freq' parameters
    scaling,           \* the host's 'scaling' and 'bounds' parameter groups
    current_position,  \* self.current_position (the cached position)
    target_value,      \* self.target_value
    phase,             \* controller.config.phase (held by the device)
    lastCmd,           \* most recent operate.run()/operate.stop() sent: none / run / stop
    lastCmdOk,         \* whether that command returned normally
    calls,             \* the driver calls issued by the last operation, in order
    last,              \* the last operation: [op, name, arg, ok, ret]
    prevAbs,           \* when `last` is a read: target of the move_abs that returned just before it, or NoAbs
    streak             \* number of consecutive returned move_rel calls with the same delta

vars == <<pc, portOk, controller, connected, initialized, settings, visible, scaling,
          current_position, target_value, phase, lastCmd, lastCmdOk, calls, last,
          prevAbs, streak>>

(***************************** bounds **************************************)
MaxMult == 2        \* multipliers n, m range over 1..MaxMult (declared min is 1)
MaxTarget == 2      \* move_abs targets range over -MaxTarget..MaxTarget
MaxDelta == 1       \* move_rel deltas range over -MaxDelta..MaxDelta
MaxScale == 2       \* scaling factors range over -1..MaxScale
MaxOffset == 1      \* scaling offsets range over 0..MaxOffset
PosCap == 4         \* positions and raw phases are kept within -PosCap..PosCap

(************************* parameter domains *******************************)
Sources == {"internal", "vco", "line", "external"}
Edges == {"rise", "fall", "sine"}
Freqs == {100, 50}
Multipliers == 1..MaxMult
Controls == {"shaft", "inner", "outer"}

\* children of self.settings in declared order: the plugin's params, then the
\* groups comon_parameters_fun appends (only those the model reads are listed)
ParamOrder == <<"com_port", "source", "edge", "internal_freq", "n", "m",
                "control", "run", "bounds", "scaling">>

DefaultSettings ==
    [com_port |-> "COM1", source |-> "internal", edge |-> "rise",
     internal_freq |-> 100, n |-> 1, m |-> 1, control |-> "outer", run |-> FALSE]

\* no 'visible' option is given in params: every parameter starts shown
DefaultVisible == [edge |-> TRUE, internal_freq |-> TRUE]

Domain(name) ==
    CASE name = "source" -> Sources
      [] name = "edge" -> Edges
      [] name = "internal_freq" -> Freqs
      [] name = "n" -> Multipliers
      [] name = "m" -> Multipliers
      [] name = "control" -> Controls
      [] name = "run" -> BOOLEAN

Editable == {"source", "edge", "internal_freq", "n", "m", "control", "run"}

Targets == (0 - MaxTarget)..MaxTarget
Deltas == (0 - MaxDelta)..MaxDelta
Scales == (0 - 1)..MaxScale
Offsets == 0..MaxOffset
Bounds == {[min_bound |-> 0 - 1, max_bound |-> 1]}

DefaultScaling ==
    [use_scaling |-> FALSE, scaling |-> 1, offset |-> 0,
     is_bounds |-> FALSE, min_bound |-> 0, max_bound |-> 1]

InCap(x) == (0 - PosCap) <= x /\ x <= PosCap

NoAbs == PosCap + 1
NoOp == [op |-> "none", name |-> "", arg |-> 0, ok |-> TRUE, ret |-> 0]
Op(o, n, a, k, r) == [op |-> o, name |-> n, arg |-> a, ok |-> k, ret |-> r]

\* bookkeeping every operation performs on the history variables
Track(o, n, a, k, r) ==
    /\ last' = Op(o, n, a, k, r)
    /\ prevAbs' = IF o = "get_actuator_value" /\ last.op = "move_abs" /\ last.ok
                  THEN last.arg ELSE NoAbs
    /\ streak' = IF o = "move_rel" /\ k
                 THEN IF last.op = "move_rel" /\ last.ok /\ last.arg = a /\ streak >= 1
                      THEN 2 ELSE 1
                 ELSE 0

(************************** the driver **************************************)
\* SR542('serial', port, '115200') evaluated as an argument of ini_stage_init:
\* with a device on the port the handle comes back connected; without one the
\* constructor raises or hands back a handle that is not connected.
CtorOutcomes(ok) == IF ok THEN {"connected"} ELSE {"raise", "disconnected"}

\* the part of the adapter's state a commit_settings call works on
World(v, c, k, l) == [visible |-> v, lastCmd |-> c, lastCmdOk |-> k, calls |-> l,
                      raised |-> FALSE]

\* self.controller.config.<field> = value
ConfigWrite(w, field, value, ok) ==
    [w EXCEPT !.calls = Append(@, [f |-> field, v |-> value, ok |-> ok]),
              !.raised = ~ok]

\* self.controller.operate.run() / self.controller.operate.stop()
Operate(w, cmd, ok) ==
    [w EXCEPT !.calls = Append(@, [f |-> cmd, v |-> "", ok |-> ok]),
              !.lastCmd = cmd,
              !.lastCmdOk = ok,
              !.raised = ~ok]

(************************ commit_settings **********************************)
\* commit_settings(param) with param.name() = name, param.value() = value; ok is
\* the outcome of the one driver call the branch makes
CommitSettings(w, name, value, ok) ==
    CASE name = "source" ->
           LET w1 == ConfigWrite(w, "source", value, ok)
           IN  IF ~ok THEN w1
               ELSE [w1 EXCEPT !.visible = [edge |-> (value = "external"),
                                            internal_freq |-> (value = "internal")]]
      [] name = "edge" -> ConfigWrite(w, "sync_edge", value, ok)
      [] name = "internal_freq" -> ConfigWrite(w, "internal_freq", value, ok)
      [] name = "control" -> ConfigWrite(w, "control_target", value, ok)
      [] name = "run" -> IF value THEN Operate(w, "run", ok) ELSE Operate(w, "stop", ok)
      [] OTHER -> w

\* the parameters whose commit_settings branch calls the driver
Forwarded == {"source", "edge", "internal_freq", "control", "run"}

\* the outcomes of a commit's driver call (none is made for the other names)
CallOutcomes(name) == IF name \in Forwarded THEN BOOLEAN ELSE {TRUE}

\* positions in ParamOrder of the parameters whose commit calls the driver
ForwardedAt == {i \in 1..Len(ParamOrder) : ParamOrder[i] \in Forwarded}

\* the value settings.children() yields for the i-th parameter
ParamValue(s, name) == IF name \in DOMAIN s THEN s[name] ELSE ""

\* for param in self.settings.children(): self.commit_settings(param)
\* the driver call of the failAt-th parameter raises (0: none does); every call
\* raises when the handle is not connected; a raise ends the loop
RECURSIVE CommitAll(_, _, _, _, _)
CommitAll(w, s, i, failAt, conn) ==
    IF i > Len(ParamOrder) \/ w.raised THEN w
    ELSE CommitAll(CommitSettings(w, ParamOrder[i], ParamValue(s, ParamOrder[i]),
                                  conn /\ i # failAt),
                   s, i + 1, failAt, conn)

(*************************** lifecycle *************************************)
\* ini_attributes, and the state of a freshly constructed plugin instance
Init ==
    /\ pc = "new"
    /\ portOk \in BOOLEAN
    /\ controller = "None"
    /\ connected = FALSE
    /\ initialized = FALSE
    /\ settings = DefaultSettings
    /\ visible = DefaultVisible
    /\ scaling = DefaultScaling
    /\ current_position = 0
    /\ target_value = 0
    /\ phase = 0
    /\ lastCmd = "none"
    /\ lastCmdOk = TRUE
    /\ calls = <<>>
    /\ last = NoOp
    /\ prevAbs = NoAbs
    /\ streak = 0

\* ini_stage(controller=None)
IniStage ==
    /\ pc = "new"
    /\ \E ctor \in CtorOutcomes(portOk), failAt \in {0} \cup ForwardedAt :
         IF ctor = "raise"
         THEN /\ pc' = "raised"
              /\ calls' = <<>>
              /\ Track("ini_stage", "", 0, FALSE, 0)
              /\ UNCHANGED <<controller, connected, initialized, visible,
                             lastCmd, lastCmdOk>>
         ELSE LET conn == (ctor = "connected")
                  w == CommitAll(World(visible, lastCmd, lastCmdOk, <<>>),
                                 settings, 1, failAt, conn)
              IN  /\ controller' = "SR542"
                  /\ connected' = conn
                  /\ initialized' = conn
                  /\ visible' = w.visible
                  /\ lastCmd' = w.lastCmd
                  /\ lastCmdOk' = w.lastCmdOk
                  /\ calls' = w.calls
                  /\ pc' = IF w.raised THEN "raised" ELSE "ready"
                  /\ Track("ini_stage", "", 0, ~w.raised, 0)
    /\ UNCHANGED <<portOk, settings, scaling, current_position, target_value, phase>>

\* a parameter given a new value in the host's tree: the value is stored, and
\* once the plugin is initialized the host calls commit_settings(param)
SettingChanged(name, value) ==
    /\ pc \in {"new", "ready"}
    /\ value # settings[name]
    /\ settings' = [settings EXCEPT ![name] = value]
    /\ IF pc = "new"
       THEN /\ calls' = <<>>
            /\ Track("edit", "", 0, TRUE, 0)
            /\ UNCHANGED <<visible, lastCmd, lastCmdOk>>
       ELSE \E ok \in CallOutcomes(name) :
              LET w == CommitSettings(World(visible, lastCmd, lastCmdOk, <<>>),
                                      name, value, connected /\ ok)
              IN  /\ visible' = w.visible
                  /\ lastCmd' = w.lastCmd
                  /\ lastCmdOk' = w.lastCmdOk
                  /\ calls' = w.calls
                  /\ Track("commit", name, value, ~w.raised, 0)
    /\ UNCHANGED <<pc, portOk, controller, connected, initialized, scaling,
                   current_position, target_value, phase>>

\* a stop_motion that resets the 'run' setting without commanding the device
StopMotionSilent ==
    /\ pc = "ready"
    /\ settings' = [settings EXCEPT !.run = FALSE]
    /\ calls' = <<>>
    /\ Track("stop_motion", "", 0, TRUE, 0)
    /\ UNCHANGED <<pc, portOk, controller, connected, initialized, visible, scaling,
                   current_position, target_value, phase, lastCmd, lastCmdOk>>

\* stop_motion()
StopMotion ==
    /\ pc = "ready"
    /\ \E ok \in BOOLEAN :
         LET w == Operate(World(visible, lastCmd, lastCmdOk, <<>>), "stop",
                          connected /\ ok)
         IN  /\ lastCmd' = w.lastCmd
             /\ lastCmdOk' = w.lastCmdOk
             /\ calls' = w.calls
             /\ settings' = IF w.raised THEN settings
                            ELSE [settings EXCEPT !.run = FALSE]
             /\ Track("stop_motion", "", 0, ~w.raised, 0)
    /\ UNCHANGED <<pc, portOk, controller, connected, initialized, visible, scaling,
                   current_position, target_value, phase>>

\* close(): self.controller.disconnect(); the attribute is left as it is
Close ==
    /\ pc \in {"ready", "raised"}
    /\ pc' = "closed"
    /\ connected' = FALSE
    /\ calls' = <<>>
    /\ Track("close", "", 0, controller # "None", 0)
    /\ UNCHANGED <<portOk, controller, initialized, settings, visible, scaling,
                   current_position, target_value, phase, lastCmd, lastCmdOk>>

\* the host builds a new plugin instance (ini_attributes) for the next
\* initialization; the parameter tree is restored from the host's copy
NewInstance ==
    /\ pc \in {"raised", "closed"}
    /\ pc' = "new"
    /\ portOk' \in BOOLEAN
    /\ controller' = "None"
    /\ connected' = FALSE
    /\ initialized' = FALSE
    /\ current_position' = 0
    /\ target_value' = 0
    /\ lastCmd' = "none"
    /\ lastCmdOk' = TRUE
    /\ calls' = <<>>
    /\ Track("new", "", 0, TRUE, 0)
    /\ UNCHANGED <<settings, visible, scaling, phase>>

(********************* the host's position helpers *************************)
\* DAQ_Move_base.check_bound: clamp to [min_bound, max_bound] when is_bounds
check_bound(c, p) ==
    IF c.is_bounds
    THEN IF p > c.max_bound THEN c.max_bound
         ELSE IF p < c.min_bound THEN c.min_bound
         ELSE p
    ELSE p

\* DAQ_Move_base.set_position_with_scaling: pos * scaling + offset
set_position_with_scaling(c, p) ==
    IF c.use_scaling THEN p * c.scaling + c.offset ELSE p

\* DAQ_Move_base.set_position_relative_with_scaling: pos * scaling
set_position_relative_with_scaling(c, p) ==
    IF c.use_scaling THEN p * c.scaling ELSE p

Abs(x) == IF x < 0 THEN 0 - x ELSE x
Exact(a, b) == b # 0 /\ a % Abs(b) = 0
Quot(a, b) == IF b > 0 THEN a \div b ELSE (0 - a) \div (0 - b)

\* DAQ_Move_base.get_position_with_scaling: (pos - offset) / scaling
get_position_with_scaling(c, p) ==
    IF c.use_scaling THEN Quot(p - c.offset, c.scaling) ELSE p

\* the division raises on a zero scaling factor
ScalingDefined(c) == ~c.use_scaling \/ c.scaling # 0

\* the quotient is an integer (positions are integers in this model)
ScalingExact(c, p) == ~c.use_scaling \/ Exact(p - c.offset, c.scaling)

(****************************** moves **************************************)
\* a move_abs that writes the clamped target without the scaling transform
MoveAbsEffectUnscaled(c, t) ==
    LET value == check_bound(c, t)
    IN  [target |-> value, raw |-> value]

\* move_abs(value): the target it leaves and the raw value it writes
MoveAbsEffect(c, t) ==
    LET value == check_bound(c, t)
    IN  [target |-> value, raw |-> set_position_with_scaling(c, value)]

\* move_rel(value): the target it leaves and the raw value it writes
MoveRelEffect(c, cur, d) ==
    LET value == check_bound(c, cur + d) - cur
        target == value + cur
        scaled == set_position_relative_with_scaling(c, value)
    IN  [target |-> target, raw |-> target]

\* move_abs(value)
MoveAbs(t) ==
    /\ pc = "ready"
    /\ LET e == MoveAbsEffect(scaling, t)
       IN  /\ InCap(e.raw)
           /\ target_value' = e.target
           /\ \E ok \in BOOLEAN :
                /\ phase' = IF connected /\ ok THEN e.raw ELSE phase
                /\ calls' = <<[f |-> "phase", v |-> e.raw, ok |-> connected /\ ok]>>
                /\ Track("move_abs", "", t, connected /\ ok, 0)
    /\ UNCHANGED <<pc, portOk, controller, connected, initialized, settings, visible,
                   scaling, current_position, lastCmd, lastCmdOk>>

\* a move_rel that also advances the cached current position to its target
MoveRelAdvancing(d) ==
    /\ pc = "ready"
    /\ LET e == MoveRelEffect(scaling, current_position, d)
       IN  /\ InCap(e.raw)
           /\ target_value' = e.target
           /\ current_position' = e.target
           /\ \E ok \in BOOLEAN :
                /\ phase' = IF connected /\ ok THEN e.raw ELSE phase
                /\ calls' = <<[f |-> "phase", v |-> e.raw, ok |-> connected /\ ok]>>
                /\ Track("move_rel", "", d, connected /\ ok, 0)
    /\ UNCHANGED <<pc, portOk, controller, connected, initialized, settings, visible,
                   scaling, lastCmd, lastCmdOk>>

\* move_rel(value)
MoveRel(d) ==
    /\ pc = "ready"
    /\ LET e == MoveRelEffect(scaling, current_position, d)
       IN  /\ InCap(e.raw)
           /\ target_value' = e.target
           /\ \E ok \in BOOLEAN :
                /\ phase' = IF connected /\ ok THEN e.raw ELSE phase
                /\ calls' = <<[f |-> "phase", v |-> e.raw, ok |-> connected /\ ok]>>
                /\ Track("move_rel", "", d, connected /\ ok, 0)
    /\ UNCHANGED <<pc, portOk, controller, connected, initialized, settings, visible,
                   scaling, current_position, lastCmd, lastCmdOk>>

\* get_actuator_value(), whose result the host's polling stores as the
\* current position
GetActuatorValue ==
    /\ pc = "ready"
    /\ ScalingExact(scaling, phase)
    /\ \E ok \in BOOLEAN :
         LET done == connected /\ ok /\ ScalingDefined(scaling)
             pos == get_position_with_scaling(scaling, phase)
         IN  /\ done => InCap(pos)
             /\ current_position' = IF done THEN pos ELSE current_position
             /\ Track("get_actuator_value", "", 0, done, IF done THEN pos ELSE 0)
    /\ calls' = <<>>
    /\ UNCHANGED <<pc, portOk, controller, connected, initialized, settings, visible,
                   scaling, target_value, phase, lastCmd, lastCmdOk>>

\* move_home(): pass
MoveHome ==
    /\ pc = "ready"
    /\ calls' = <<>>
    /\ Track("move_home", "", 0, TRUE, 0)
    /\ UNCHANGED <<pc, portOk, controller, connected, initialized, settings, visible,
                   scaling, current_position, target_value, phase, lastCmd, lastCmdOk>>

\* a parameter of the 'scaling' or 'bounds' group edited in the host's tree:
\* commit_settings matches none of its names
ScalingChanged(c) ==
    /\ pc = "ready"
    /\ c # scaling
    /\ scaling' = c
    /\ LET w == CommitSettings(World(visible, lastCmd, lastCmdOk, <<>>),
                               "scaling", "", connected)
       IN  /\ visible' = w.visible
           /\ lastCmd' = w.lastCmd
           /\ lastCmdOk' = w.lastCmdOk
           /\ calls' = w.calls
    /\ Track("commit", "scaling", 0, TRUE, 0)
    /\ UNCHANGED <<pc, portOk, controller, connected, initialized, settings,
                   current_position, target_value, phase>>

\* the settings of the two groups the model ranges over: each group either at
\* its defaults (disabled) or enabled with values from the bounded sets
ScalingConfigs ==
    { [use_scaling |-> u.use_scaling, scaling |-> u.scaling, offset |-> u.offset,
       is_bounds |-> b.is_bounds, min_bound |-> b.min_bound, max_bound |-> b.max_bound] :
      u \in {[use_scaling |-> FALSE, scaling |-> 1, offset |-> 0]}
             \cup [use_scaling : {TRUE}, scaling : Scales, offset : Offsets],
      b \in {[is_bounds |-> FALSE, min_bound |-> 0, max_bound |-> 1]}
             \cup {[is_bounds |-> TRUE, min_bound |-> x.min_bound,
                    max_bound |-> x.max_bound] : x \in Bounds} }

(*************************** specifications ********************************)
\* lifecycle, settings and run/stop, with the host's scaling left at its defaults
Next ==
    \/ IniStage
    \/ \E name \in Editable : \E value \in Domain(name) : SettingChanged(name, value)
    \/ StopMotion
    \/ Close
    \/ NewInstance

Spec == Init /\ [][Next]_vars

\* the state ini_stage leaves from Init when a device answers on the port
InitMove ==
    /\ pc = "ready"
    /\ portOk = TRUE
    /\ controller = "SR542"
    /\ connected = TRUE
    /\ initialized = TRUE
    /\ settings = DefaultSettings
    /\ visible = [edge |-> FALSE, internal_freq |-> TRUE]
    /\ scaling = DefaultScaling
    /\ current_position = 0
    /\ target_value = 0
    /\ phase = 0
    /\ lastCmd = "stop"
    /\ lastCmdOk = TRUE
    /\ calls = <<[f |-> "source", v |-> "internal", ok |-> TRUE],
                 [f |-> "sync_edge", v |-> "rise", ok |-> TRUE],
                 [f |-> "internal_freq", v |-> 100, ok |-> TRUE],
                 [f |-> "control_target", v |-> "outer", ok |-> TRUE],
                 [f |-> "stop", v |-> "", ok |-> TRUE]>>
    /\ last = Op("ini_stage", "", 0, TRUE, 0)
    /\ prevAbs = NoAbs
    /\ streak = 0

\* moves and reads of an initialized plugin under every scaling and bounds setting
NextMove ==
    \/ \E t \in Targets : MoveAbs(t)
    \/ \E d \in Deltas : MoveRel(d)
    \/ GetActuatorValue
    \/ MoveHome
    \/ \E c \in ScalingConfigs : ScalingChanged(c)

SpecMove == InitMove /\ [][NextMove]_vars

(****************************** claims *************************************)
\* C1: ini_stage against a port on which no connection can be established
\* returns (info, initialized) with initialized = false and does not raise.
C1_UnreachablePortReturnsFalse ==
    (last.op = "ini_stage" /\ ~portOk) =>
        (pc = "ready" /\ last.ok /\ initialized = FALSE)

\* C2: once initialization has completed, 'edge' is visible exactly when source
\* is 'external' and 'internal_freq' exactly when source is 'internal'.
C2_VisibilityFollowsSource ==
    pc = "ready" =>
        /\ visible.edge <=> (settings.source = "external")
        /\ visible.internal_freq <=> (settings.source = "internal")

\* C3: when stop_motion hands control back, the 'run' setting is false, whether
\* or not the stop command succeeded.
C3_StopLeavesRunFalse ==
    last.op = "stop_motion" => settings.run = FALSE

\* the configuration writes and the run/stop command that committing every
\* setting of s once, in declared order, issues
ExpectedCommits(s) ==
    <<[f |-> "source", v |-> s.source],
      [f |-> "sync_edge", v |-> s.edge],
      [f |-> "internal_freq", v |-> s.internal_freq],
      [f |-> "control_target", v |-> s.control],
      [f |-> IF s.run THEN "run" ELSE "stop", v |-> ""]>>

SameCalls(log, expected) ==
    /\ Len(log) = Len(expected)
    /\ \A i \in 1..Len(expected) :
         /\ log[i].f = expected[i].f
         /\ log[i].v = expected[i].v

\* C6: ini_stage applies the settings only on success: when is_connected()
\* reports false it issues no configuration write and no run/stop command; when
\* it reports true every setting is committed once, in declared order.
C6_SettingsAppliedOnlyWhenConnected ==
    (last.op = "ini_stage" /\ controller = "SR542") =>
        IF initialized
        THEN last.ok => SameCalls(calls, ExpectedCommits(settings))
        ELSE Len(calls) = 0

\* C7: the adapter holds a device handle exactly between a successful
\* initialization and close.
C7_HandleHeldOnlyWhileInitialized ==
    (controller # "None") <=> (pc = "ready" /\ initialized)

\* C9: committing a change of source, edge, internal frequency, multiplier n or
\* m, or control target writes the new value to the device.
C9_EveryOptionForwarded ==
    (last.op = "commit" /\
     last.name \in {"source", "edge", "internal_freq", "n", "m", "control"}) =>
        \E i \in 1..Len(calls) : calls[i].v = last.arg

\* C10: after initialization, while the run/stop commands succeed, the 'run'
\* setting is true exactly when the most recent command sent to the device was
\* run(); an initialization with run = false sends stop and never run.
C10_RunMatchesLastCommand ==
    /\ (pc = "ready" /\ lastCmdOk) => (settings.run <=> (lastCmd = "run"))
    /\ (pc = "ready" /\ last.op = "ini_stage" /\ ~settings.run) =>
           /\ lastCmd = "stop"
           /\ \A i \in 1..Len(calls) : calls[i].f # "run"

\* C10 witness: stop_motion has returned after commanding the device to stop
C10_Witness ==
    /\ pc = "ready"
    /\ last.op = "stop_motion"
    /\ last.ok
    /\ lastCmd = "stop"
    /\ ~settings.run

InBounds(c, t) == ~c.is_bounds \/ (c.min_bound <= t /\ t <= c.max_bound)

C5_ReadReturnsTarget ==
    (last.op = "get_actuator_value" /\ last.ok /\ prevAbs # NoAbs
        /\ InBounds(scaling, prevAbs)) =>
        last.ret = prevAbs

\* C5 witness: a read after a move under a scaling that is not the identity
C5_Witness ==
    /\ last.op = "get_actuator_value"
    /\ last.ok
    /\ prevAbs # NoAbs
    /\ prevAbs # 0
    /\ InBounds(scaling, prevAbs)
    /\ scaling.use_scaling
    /\ scaling.scaling \notin {0, 1}
    /\ scaling.offset # 0
    /\ last.ret = prevAbs

\* C8: move_rel(delta) writes the raw phase and leaves the target that
\* move_abs(current + delta) does from the same state.
C8_RelEqualsAbs ==
    (last.op = "move_rel" /\ last.ok) =>
        LET e == MoveAbsEffect(scaling, current_position + last.arg)
        IN  target_value = e.target /\ phase = e.raw

====
